---- MODULE Spec2Model ----
(***************************************************************************)
(* A model of the Renderer repository: the RenderContext of                *)
(* src/render_context.rs (registry of GPU buffer pairs, per-frame          *)
(* protocol, resize), the Mesh and BufferSet it uses, and the winit        *)
(* application handler App of src/main.rs.  Every handler is one action;   *)
(* the GPU calls a handler makes are recorded, in order, in `calls`.       *)
(***************************************************************************)
EXTENDS Integers, Sequences, FiniteSets, TLC

VARIABLES
    harness,         \* which entry point is exercised: "RenderContext" or "App"
    proc,            \* the process: "running", "exited" (process::exit), "panicked"
    meshes,          \* the Mesh values constructed so far; meshes[i].id = i
    context,         \* RenderContext: "Uninitialized" until new() returned, then "Running"
    surface_config,  \* RenderContext.surface_config (width, height)
    buffer_sets,     \* RenderContext.buffer_sets: mesh id -> BufferSet
    device_buffers,  \* number of buffers created on the device so far (next handle - 1)
    uploads,         \* per mesh id, how often Mesh::buffer_set uploaded it
    surface,         \* what the surface was last configured with: {} or {[width, height]}
    uniform_buffer,  \* content of the uniform buffer (a matrix)
    window,          \* App.window.is_some()
    config,          \* App.config: {} (None) or {[width, height]}
    camera,          \* App.camera
    calls,           \* GPU / window-system calls made by the last handler, in order
    lastOp           \* the last handler run and its inputs

vars == <<harness, proc, meshes, context, surface_config, buffer_sets, device_buffers,
          uploads, surface, uniform_buffer, window, config, camera, calls, lastOp>>

rcVars == <<meshes, context, surface_config, buffer_sets, device_buffers, uploads>>
appVars == <<window, config, camera>>

---------------------------------------------------------------------------
(* Bounds of the model *)

MaxDim == 2          \* window widths and heights are 0..MaxDim
MaxMeshes == 2       \* at most this many Mesh values are constructed
MaxCam == 1          \* the camera moves at most this many key steps from its default pose

Dims == 0..MaxDim

\* The scene the caller builds: the (vertices, indices) arguments of its
\* i-th call of Mesh::new.  A triangle, then a quad of two triangles whose
\* last index is out of range, then a well-formed quad, and so on.
MeshArgs(i) ==
    CASE i % 3 = 1 -> [vertices |-> 3, indices |-> <<0, 1, 2>>]
      [] i % 3 = 2 -> [vertices |-> 4, indices |-> <<0, 1, 2, 2, 3, 4>>]
      [] OTHER     -> [vertices |-> 4, indices |-> <<0, 1, 2, 2, 3, 0>>]

\* The keys the user presses: exit, forward, backward, turn, and a key the
\* handler ignores.
KeyCodes == {"Escape", "KeyW", "KeyS", "KeyQ", "Other"}

---------------------------------------------------------------------------
(* Values *)

Call(op, a, b) == [op |-> op, a |-> a, b |-> b]

\* A handler invocation: its name and its inputs (0, TRUE or "" when it has none).
Op(op, mesh, ok, key, width, height) ==
    [op |-> op, mesh |-> mesh, ok |-> ok, key |-> key, width |-> width, height |-> height]

Size(w, h) == [width |-> w, height |-> h]

\* A 4x4 matrix is represented by what it was computed from.
Mat4(aspect, translation, rotation) ==
    [aspect |-> aspect, translation |-> translation, rotation |-> rotation]

\* A buffer created without initial data reads as zeroes.
Mat4_ZERO == Mat4(<<0, 0>>, <<0, 0, 0>>, 0)

Camera_default ==
    [translation |-> <<0, 0, 0>>, rotation |-> 0, aspect_ratio |-> <<16, 9>>]

\* projection_matrix(): perspective from the camera's own aspect_ratio field.
Camera_projection_matrix(cam) == Mat4(cam.aspect_ratio, <<0, 0, 0>>, 0)

\* view_projection_matrix(): projection_matrix() * view_matrix().
Camera_view_projection_matrix(cam) ==
    [Camera_projection_matrix(cam) EXCEPT !.translation = cam.translation,
                                          !.rotation = cam.rotation]

Camera_translate(cam, d) ==
    [cam EXCEPT !.translation = <<@[1] + d[1], @[2] + d[2], @[3] + d[3]>>]

Camera_rotate(cam, r) == [cam EXCEPT !.rotation = r + @]

Abs(x) == IF x < 0 THEN -x ELSE x

\* Distance of a pose from the default pose, in key steps.
CamSteps(cam) ==
    Abs(cam.translation[1]) + Abs(cam.translation[2]) + Abs(cam.translation[3])
        + Abs(cam.rotation)

---------------------------------------------------------------------------
(* Mesh and BufferSet *)

BufferSet_new(index_buffer, vertex_buffer) ==
    [index_buffer |-> index_buffer, vertex_buffer |-> vertex_buffer]

\* Mesh::new: `id` stands for the fresh Uuid::new_v4().
Mesh_new(id, vertices, indices) ==
    [id |-> id, vertices |-> vertices, indices |-> indices]

Mesh_id(mesh) == mesh.id

Mesh_index_count(mesh) == Len(mesh.indices)

\* Mesh::buffer_set: two create_buffer_init calls, the vertex buffer first.
\* `n` is the number of buffers the device has created before.
Mesh_buffer_set(mesh, n) ==
    [calls |-> << Call("create_buffer_init", n + 1, mesh.vertices),
                  Call("create_buffer_init", n + 2, Len(mesh.indices)) >>,
     buffer_set |-> BufferSet_new(n + 2, n + 1)]

---------------------------------------------------------------------------
(* RenderContext *)

\* Variant of HashMap_insert: the map is rebuilt with the new entry alone.
HashMap_insert_only(map, k, v) == [x \in {k} |-> v]

\* HashMap::insert: a new key is added, an existing key's value is replaced.
HashMap_insert(map, k, v) ==
    [x \in (DOMAIN map) \cup {k} |-> IF x = k THEN v ELSE map[x]]

\* The fields of a RenderContext a method reads and writes, with the calls the
\* method has made so far and whether it has panicked.
Self ==
    [surface_config |-> surface_config, buffer_sets |-> buffer_sets,
     device_buffers |-> device_buffers, uploads |-> uploads,
     uniform_buffer |-> uniform_buffer, surface |-> surface,
     calls |-> <<>>, panicked |-> FALSE]

contains_key(map, k) == k \in DOMAIN map

\* Variant of register_mesh_hit: the check for an existing entry is missing.
register_mesh_hit_never(self, mesh) == FALSE

\* register_mesh: return early when the mesh id is a key of buffer_sets.
register_mesh_hit(self, mesh) == contains_key(self.buffer_sets, Mesh_id(mesh))

\* register_mesh, after the check: create the buffer pair and insert it.
register_mesh_insert(self, mesh) ==
    LET r == Mesh_buffer_set(mesh, self.device_buffers) IN
    [self EXCEPT
       !.buffer_sets = HashMap_insert(@, Mesh_id(mesh), r.buffer_set),
       !.device_buffers = @ + 2,
       !.uploads = [@ EXCEPT ![Mesh_id(mesh)] = @ + 1],
       !.calls = @ \o r.calls]

register_mesh(self, mesh) ==
    IF register_mesh_hit(self, mesh)
    THEN self
    ELSE register_mesh_insert(self, mesh)

\* Variant of render_register: the buffers are created on every render.
render_register_always(self, mesh) == register_mesh_insert(self, mesh)

\* Variant of render_register: render does not register the mesh.
render_register_never(self, mesh) == self

\* render, first statement: register the mesh unless it is registered.
render_register(self, mesh) ==
    IF ~contains_key(self.buffer_sets, Mesh_id(mesh))
    THEN register_mesh(self, mesh)
    ELSE self

\* Variant of render_skip: && in place of ||.
render_skip_both(cfg) == cfg.width = 0 /\ cfg.height = 0

\* render, second statement: a zero width or height skips the frame.
render_skip(cfg) == cfg.width = 0 \/ cfg.height = 0

\* render: aspect_ratio = width as f32 / height as f32, kept as the fraction.
render_aspect_ratio(cfg) == <<cfg.width, cfg.height>>

\* render: the matrix written to the uniform buffer. render passes the ratio
\* to view_projection_matrix; the camera's projection reads the ratio from its
\* aspect_ratio field.
render_matrix(cam, cfg) ==
    Camera_view_projection_matrix([cam EXCEPT !.aspect_ratio = render_aspect_ratio(cfg)])

\* render: the draw of the mesh inside the render pass.
render_draw(buffer_set, mesh) ==
    << Call("set_vertex_buffer", 0, buffer_set.vertex_buffer),
       Call("set_index_buffer", buffer_set.index_buffer, 16),
       Call("set_bind_group", 0, 0),
       Call("draw_indexed", Mesh_index_count(mesh), 1) >>

\* Variant of render_finish: the frame is presented before the submit.
render_finish_present_first ==
    << Call("finish", 0, 0), Call("present", 0, 0), Call("submit", 1, 0) >>

\* render: the end of a frame.
render_finish ==
    << Call("finish", 0, 0), Call("submit", 1, 0), Call("present", 0, 0) >>

\* render, after the frame was acquired.
render_frame(self, cam, mesh) ==
    LET head == << Call("create_view", 0, 0),
                   Call("create_command_encoder", 0, 0),
                   Call("write_buffer", render_aspect_ratio(self.surface_config)[1],
                                        render_aspect_ratio(self.surface_config)[2]),
                   Call("begin_render_pass", 0, 0),
                   Call("set_pipeline", 0, 0) >>
        written == [self EXCEPT !.uniform_buffer = render_matrix(cam, self.surface_config)]
    IN  IF contains_key(self.buffer_sets, Mesh_id(mesh))
        THEN [written EXCEPT
                !.calls = @ \o head
                            \o render_draw(self.buffer_sets[Mesh_id(mesh)], mesh)
                            \o << Call("end_render_pass", 0, 0) >>
                            \o render_finish]
        ELSE \* buffer_sets.get(..).unwrap() on None
             [written EXCEPT !.calls = @ \o head, !.panicked = TRUE]

\* Variant of render_acquired: the Err arm does not return.
render_acquired_unchecked(self, cam, mesh, acquired) ==
    render_frame([self EXCEPT !.calls = @ \o << Call("get_current_texture",
                                                      IF acquired THEN 1 ELSE 0, 0) >>],
                 cam, mesh)

\* render, the match on get_current_texture(): Err logs and returns.
render_acquired(self, cam, mesh, acquired) ==
    IF acquired
    THEN render_frame([self EXCEPT !.calls = @ \o << Call("get_current_texture", 1, 0) >>],
                      cam, mesh)
    ELSE [self EXCEPT !.calls = @ \o << Call("get_current_texture", 0, 0) >>]

render(self, cam, mesh, acquired) ==
    LET s == render_register(self, mesh) IN
    IF render_skip(s.surface_config)
    THEN s
    ELSE render_acquired(s, cam, mesh, acquired)

\* Variant of resize_configures: && in place of ||.
resize_configures_either(width, height) == ~(width = 0 /\ height = 0)

\* Variant of resize_configuration: width and height exchanged.
resize_configuration_swapped(cfg) == Size(cfg.height, cfg.width)

\* resize: whether the surface is reconfigured.
resize_configures(width, height) == ~(width = 0 \/ height = 0)

\* resize: what surface.configure is given.
resize_configuration(cfg) == Size(cfg.width, cfg.height)

resize(self, width, height) ==
    LET s == [self EXCEPT !.surface_config = Size(width, height)] IN
    IF resize_configures(width, height)
    THEN LET c == resize_configuration(s.surface_config) IN
         [s EXCEPT !.surface = {c},
                   !.calls = @ \o << Call("configure", c.width, c.height) >>]
    ELSE s

\* Variant of new_calls: the pipeline is built before the uniform buffer and
\* its bind group are created.
new_calls_pipeline_first(window_size, failure) ==
    LET a == << Call("create_surface", IF failure = "surface" THEN 0 ELSE 1, 0) >>
        b == << Call("request_adapter", IF failure = "adapter" THEN 0 ELSE 1, 0) >>
        c == << Call("request_device", IF failure = "device" THEN 0 ELSE 1, 0) >>
        d == << Call("configure", window_size.width, window_size.height),
                Call("create_pipeline_layout", 0, 0),
                Call("create_shader_module", 0, 0),
                Call("create_render_pipeline", 0, 0),
                Call("create_buffer", 1, 64),
                Call("create_bind_group_layout", 0, 0),
                Call("create_bind_group", 0, 0) >>
    IN  CASE failure = "surface" -> a
          [] failure = "adapter" -> a \o b
          [] failure = "device"  -> a \o b \o c
          [] OTHER               -> a \o b \o c \o d

\* RenderContext::new up to the point a failing expect() panics.
\* `failure` is "none", or the step that fails.
new_calls(window_size, failure) ==
    LET a == << Call("create_surface", IF failure = "surface" THEN 0 ELSE 1, 0) >>
        b == << Call("request_adapter", IF failure = "adapter" THEN 0 ELSE 1, 0) >>
        c == << Call("request_device", IF failure = "device" THEN 0 ELSE 1, 0) >>
        d == << Call("configure", window_size.width, window_size.height),
                Call("create_buffer", 1, 64),
                Call("create_bind_group_layout", 0, 0),
                Call("create_bind_group", 0, 0),
                Call("create_pipeline_layout", 0, 0),
                Call("create_shader_module", 0, 0),
                Call("create_render_pipeline", 0, 0) >>
    IN  CASE failure = "surface" -> a
          [] failure = "adapter" -> a \o b
          [] failure = "device"  -> a \o b \o c
          [] OTHER               -> a \o b \o c \o d

Failures == {"none", "surface", "adapter", "device"}

\* Variant of new_succeeds: a rejected device request is not fatal.
new_succeeds_without_device(failure) == failure \in {"none", "device"}

\* RenderContext::new: the unwrap()s on create_surface, request_adapter and
\* request_device all return, so that a RenderContext is built.
new_succeeds(failure) == failure = "none"

---------------------------------------------------------------------------
(* Actions of the RenderContext harness *)

\* The camera the caller passes to render: one step forward of the default pose.
CallerCameras == {Camera_translate(Camera_default, <<0, 0, 1>>)}

Commit(s) ==
    /\ surface_config' = s.surface_config
    /\ buffer_sets' = s.buffer_sets
    /\ device_buffers' = s.device_buffers
    /\ uploads' = s.uploads
    /\ uniform_buffer' = s.uniform_buffer
    /\ surface' = s.surface
    /\ calls' = s.calls
    /\ proc' = IF s.panicked THEN "panicked" ELSE proc

MeshNew ==
    /\ harness = "RenderContext" /\ proc = "running"
    /\ Len(meshes) < MaxMeshes
    /\ meshes' = Append(meshes, Mesh_new(Len(meshes) + 1,
                                         MeshArgs(Len(meshes) + 1).vertices,
                                         MeshArgs(Len(meshes) + 1).indices))
    /\ calls' = <<>>
    /\ lastOp' = Op("Mesh::new", Len(meshes) + 1, TRUE, "", 0, 0)
    /\ UNCHANGED <<harness, proc, context, surface_config, buffer_sets, device_buffers,
                   uploads, surface, uniform_buffer, appVars>>

New ==
    /\ harness = "RenderContext" /\ proc = "running"
    /\ context = "Uninitialized"
    /\ \E w \in Dims, h \in Dims, failure \in Failures :
          /\ calls' = new_calls(Size(w, h), failure)
          /\ lastOp' = Op("new", 0, failure = "none", "", w, h)
          /\ IF new_succeeds(failure)
             THEN /\ context' = "Running"
                  /\ surface_config' = Size(w, h)
                  /\ surface' = {Size(w, h)}
                  /\ device_buffers' = device_buffers + 1
                  /\ uniform_buffer' = Mat4_ZERO
                  /\ buffer_sets' = << >>
                  /\ proc' = proc
             ELSE /\ proc' = "panicked"
                  /\ UNCHANGED <<context, surface_config, surface, device_buffers,
                                 uniform_buffer, buffer_sets>>
    /\ UNCHANGED <<harness, meshes, uploads, appVars>>

RegisterMesh ==
    /\ harness = "RenderContext" /\ proc = "running"
    /\ context = "Running"
    /\ \E i \in DOMAIN meshes :
          /\ Commit(register_mesh(Self, meshes[i]))
          /\ lastOp' = Op("register_mesh", i, TRUE, "", 0, 0)
    /\ UNCHANGED <<harness, meshes, context, appVars>>

Render ==
    /\ harness = "RenderContext" /\ proc = "running"
    /\ context = "Running"
    /\ \E i \in DOMAIN meshes, cam \in CallerCameras, acquired \in BOOLEAN :
          /\ Commit(render(Self, cam, meshes[i], acquired))
          /\ lastOp' = Op("render", i, acquired, "", 0, 0)
    /\ UNCHANGED <<harness, meshes, context, appVars>>

Resize ==
    /\ harness = "RenderContext" /\ proc = "running"
    /\ context = "Running"
    /\ \E w \in Dims, h \in Dims :
          /\ Commit(resize(Self, w, h))
          /\ lastOp' = Op("resize", 0, TRUE, "", w, h)
    /\ UNCHANGED <<harness, meshes, context, appVars>>

---------------------------------------------------------------------------
(* App *)

\* is_visible: a configuration exists and neither dimension is 0.
App_is_visible(cfg) == \E c \in cfg : c.width # 0 /\ c.height # 0

\* App::render: get_current_texture().expect(..), the pass, the camera write,
\* submit, present.
App_render(cam, acquired) ==
    IF acquired
    THEN [calls |-> << Call("get_current_texture", 1, 0),
                       Call("create_view", 0, 0),
                       Call("create_command_encoder", 0, 0),
                       Call("begin_render_pass", 0, 0),
                       Call("set_pipeline", 0, 0),
                       Call("set_vertex_buffer", 0, 1),
                       Call("set_bind_group", 0, 0),
                       Call("draw", 3, 1),
                       Call("end_render_pass", 0, 0),
                       Call("write_buffer", cam.aspect_ratio[1], cam.aspect_ratio[2]),
                       Call("finish", 0, 0),
                       Call("submit", 1, 0),
                       Call("present", 0, 0) >>,
          uniform_buffer |-> {Camera_view_projection_matrix(cam)},
          panicked |-> FALSE]
    ELSE [calls |-> << Call("get_current_texture", 0, 0) >>,
          uniform_buffer |-> {},
          panicked |-> TRUE]

\* window_event, Resized: whether the surface is reconfigured.
Resized_configures(width, height) == ~(width = 0 \/ height = 0)

\* keyboard_input: the camera after the key; Escape exits instead.
keyboard_input(cam, key) ==
    CASE key = "KeyW" -> Camera_translate(cam, <<0, 0, 1>>)
      [] key = "KeyS" -> Camera_translate(cam, <<0, 0, -1>>)
      [] key = "KeyA" -> Camera_translate(cam, <<-1, 0, 0>>)
      [] key = "KeyD" -> Camera_translate(cam, <<1, 0, 0>>)
      [] key = "KeyQ" -> Camera_rotate(cam, 1)
      [] key = "KeyE" -> Camera_rotate(cam, -1)
      [] OTHER        -> cam

\* init_window_and_surface and the four init_* that follow it in resumed, up to
\* the point a failing expect() panics.
resumed_calls(window_size, failure) ==
    LET a == << Call("create_window", IF failure = "window" THEN 0 ELSE 1, 0) >>
        b == << Call("create_surface", IF failure = "surface" THEN 0 ELSE 1, 0) >>
        c == << Call("request_adapter", IF failure = "adapter" THEN 0 ELSE 1, 0) >>
        d == << Call("request_device", IF failure = "device" THEN 0 ELSE 1, 0) >>
        e == << Call("configure", window_size.width, window_size.height),
                Call("create_buffer_init", 1, 3),
                Call("create_buffer_init", 2, 64),
                Call("create_bind_group_layout", 0, 0),
                Call("create_bind_group", 0, 0),
                Call("create_pipeline_layout", 0, 0),
                Call("create_shader_module", 0, 0),
                Call("create_render_pipeline", 0, 0) >>
    IN  CASE failure = "window"  -> a
          [] failure = "surface" -> a \o b
          [] failure = "adapter" -> a \o b \o c
          [] failure = "device"  -> a \o b \o c \o d
          [] OTHER               -> a \o b \o c \o d \o e

AppFailures == {"none", "window", "surface", "adapter", "device"}

\* Variant of window_event_dropped: the guard on self.window is missing.
window_event_dropped_never(win) == FALSE

\* window_event: the early return while self.window is None.
window_event_dropped(win) == ~win

\* Variant of keyboard_exits: no key ends the process.
keyboard_exits_never(key) == FALSE

\* keyboard_input: the key whose arm is std::process::exit(0).
keyboard_exits(key) == key = "Escape"

\* Variant of resumed_initializes: the guard on self.window is missing.
resumed_initializes_always(win) == TRUE

\* resumed: initialization runs only while self.window is None.
resumed_initializes(win) == ~win

---------------------------------------------------------------------------
(* Actions of the App harness: the ApplicationHandler callbacks *)

AppStep == harness = "App" /\ proc = "running"

Resumed ==
    /\ AppStep
    /\ lastOp' = Op("resumed", 0, TRUE, "", 0, 0)
    /\ IF ~resumed_initializes(window)
       THEN /\ calls' = <<>>
            /\ UNCHANGED <<proc, window, config, surface, uniform_buffer>>
       ELSE \E w \in Dims, h \in Dims, failure \in AppFailures :
            /\ calls' = resumed_calls(Size(w, h), failure)
            /\ window' = (failure # "window")
            /\ IF failure = "none"
               THEN /\ config' = {Size(w, h)}
                    /\ surface' = {Size(w, h)}
                    /\ uniform_buffer' = Camera_projection_matrix(camera)
                    /\ proc' = proc
               ELSE /\ proc' = "panicked"
                    /\ UNCHANGED <<config, surface, uniform_buffer>>
    /\ UNCHANGED <<harness, camera, rcVars>>

RedrawRequested ==
    /\ AppStep
    /\ IF window_event_dropped(window) \/ ~App_is_visible(config)
       THEN /\ calls' = <<>>
            /\ lastOp' = Op("RedrawRequested", 0, TRUE, "", 0, 0)
            /\ UNCHANGED <<proc, uniform_buffer>>
       ELSE \E acquired \in BOOLEAN :
            LET r == App_render(camera, acquired) IN
            /\ calls' = r.calls
            /\ lastOp' = Op("RedrawRequested", 0, acquired, "", 0, 0)
            /\ uniform_buffer' = IF r.uniform_buffer = {} THEN uniform_buffer
                                 ELSE CHOOSE m \in r.uniform_buffer : TRUE
            /\ proc' = IF r.panicked THEN "panicked" ELSE proc
    /\ UNCHANGED <<harness, window, config, surface, camera, rcVars>>

Resized ==
    /\ AppStep
    /\ \E w \in Dims, h \in Dims :
       /\ lastOp' = Op("Resized", 0, TRUE, "", w, h)
       /\ IF window_event_dropped(window)
          THEN /\ calls' = <<>>
               /\ UNCHANGED <<config, surface>>
          ELSE
            /\ config' = {Size(w, h)}
            /\ IF Resized_configures(w, h)
               THEN /\ surface' = {Size(w, h)}
                    /\ calls' = << Call("configure", w, h) >>
               ELSE /\ surface' = surface
                    /\ calls' = <<>>
    /\ UNCHANGED <<harness, proc, window, uniform_buffer, camera, rcVars>>

CloseRequested ==
    /\ AppStep
    /\ lastOp' = Op("CloseRequested", 0, TRUE, "", 0, 0)
    /\ calls' = <<>>
    /\ proc' = IF window_event_dropped(window) THEN proc ELSE "exited"
    /\ UNCHANGED <<harness, window, config, surface, uniform_buffer, camera, rcVars>>

KeyboardInput ==
    /\ AppStep
    /\ \E key \in KeyCodes :
          /\ lastOp' = Op("KeyboardInput", 0, TRUE, key, 0, 0)
          /\ calls' = <<>>
          /\ IF window_event_dropped(window)
             THEN UNCHANGED <<proc, camera>>
             ELSE IF keyboard_exits(key)
             THEN proc' = "exited" /\ camera' = camera
             ELSE /\ camera' = keyboard_input(camera, key)
                  /\ CamSteps(camera') <= MaxCam
                  /\ proc' = proc
    /\ UNCHANGED <<harness, window, config, surface, uniform_buffer, rcVars>>

AboutToWait ==
    /\ AppStep
    /\ lastOp' = Op("about_to_wait", 0, TRUE, "", 0, 0)
    /\ calls' = IF window THEN << Call("request_redraw", 0, 0) >> ELSE <<>>
    /\ UNCHANGED <<harness, proc, window, config, surface, uniform_buffer, camera, rcVars>>

---------------------------------------------------------------------------
(* Specification *)

Init ==
    /\ harness \in {"RenderContext", "App"}
    /\ proc = "running"
    /\ meshes = <<>>
    /\ context = "Uninitialized"
    /\ surface_config = Size(0, 0)
    /\ buffer_sets = << >>
    /\ device_buffers = 0
    /\ uploads = [i \in 1..MaxMeshes |-> 0]
    /\ surface = {}
    /\ uniform_buffer = Mat4_ZERO
    /\ window = FALSE
    /\ config = {}
    /\ camera = Camera_default
    /\ calls = <<>>
    /\ lastOp = Op("start", 0, TRUE, "", 0, 0)

Next ==
    \/ MeshNew
    \/ New
    \/ RegisterMesh
    \/ Render
    \/ Resize
    \/ Resumed
    \/ RedrawRequested
    \/ Resized
    \/ CloseRequested
    \/ KeyboardInput
    \/ AboutToWait

Spec == Init /\ [][Next]_vars

\* A render call on a non-zero stored size whose get_current_texture returns Ok.
RenderAcquired ==
    Render /\ lastOp'.ok /\ surface_config.width # 0 /\ surface_config.height # 0

\* A RedrawRequested handled by a visible App whose get_current_texture
\* returns Ok.
RedrawAcquired ==
    RedrawRequested /\ lastOp'.ok /\ window /\ App_is_visible(config)

\* The redraw cadence: about_to_wait requests a redraw on every turn of the
\* event loop (the caller of RenderContext renders every frame), and the
\* acquisition succeeds again and again for as long as frames can be drawn.
LiveSpec == Spec /\ SF_vars(RenderAcquired) /\ SF_vars(RedrawAcquired)

---------------------------------------------------------------------------
(* Properties *)

Range(seq) == {seq[i] : i \in DOMAIN seq}

\* The names of the calls in a call sequence.
CallOps(cs) == {cs[i].op : i \in DOMAIN cs}

\* How many calls of a name a call sequence holds.
Count(cs, op) == Cardinality({i \in DOMAIN cs : cs[i].op = op})

\* Positions of the calls of a name.
Positions(cs, op) == {i \in DOMAIN cs : cs[i].op = op}

AcquireOk == Call("get_current_texture", 1, 0)
AcquireErr == Call("get_current_texture", 0, 0)

ZeroArea(size) == size.width = 0 \/ size.height = 0

\* C1: register_mesh on a mesh whose id is already in the registry creates no
\* GPU buffer, leaves the registry as it was, and the buffer pair mapped to the
\* id is the same handle as before the call.
C1_RegisterIdempotent ==
    [][ \A i \in DOMAIN meshes :
          (lastOp'.op = "register_mesh" /\ lastOp'.mesh = i /\ i \in DOMAIN buffer_sets)
          => /\ calls' = <<>>
             /\ device_buffers' = device_buffers
             /\ buffer_sets' = buffer_sets
             /\ buffer_sets'[i] = buffer_sets[i] ]_vars

\* A register_mesh call that found its mesh registered.
C1_Witness ==
    /\ lastOp.op = "register_mesh"
    /\ lastOp.mesh \in DOMAIN buffer_sets
    /\ calls = <<>>
    /\ uploads[lastOp.mesh] = 1

\* C2: over any sequence of register_mesh, render and resize calls, each mesh
\* id is uploaded (its buffer pair created) at most once.
C2_UploadedAtMostOnce ==
    /\ \A i \in DOMAIN uploads : uploads[i] <= 1
    /\ device_buffers <= 1 + 2 * Cardinality(DOMAIN buffer_sets)

\* A render of a mesh that was uploaded before: no buffer is created.
C2_Witness ==
    /\ lastOp.op = "render"
    /\ uploads[lastOp.mesh] = 1
    /\ "create_buffer_init" \notin CallOps(calls)
    /\ "present" \in CallOps(calls)

\* C3: a render (RenderContext::render, or the App's RedrawRequested) while
\* the stored width or height is 0 makes no get_current_texture, no submit and
\* no present call.
C3_ZeroAreaNoFrame ==
    /\ (lastOp.op = "render" /\ ZeroArea(surface_config))
         => CallOps(calls) \cap {"get_current_texture", "submit", "present"} = {}
    /\ (lastOp.op = "RedrawRequested" /\ \E c \in config : ZeroArea(c))
         => CallOps(calls) \cap {"get_current_texture", "submit", "present"} = {}

\* A render with a zero width and a non-zero height, in which the mesh was
\* uploaded.
C3_Witness ==
    /\ lastOp.op = "render"
    /\ surface_config.width = 0 /\ surface_config.height # 0
    /\ "create_buffer_init" \in CallOps(calls)

\* C4: when get_current_texture fails in RenderContext::render, the call
\* returns without panicking, having made no uniform write, no render-pass
\* encoding, no submit and no present, and surface_config is unchanged.
C4_AcquireFailureSkips ==
    [][ (lastOp'.op = "render" /\ AcquireErr \in Range(calls'))
        => /\ proc' = "running"
           /\ CallOps(calls') \cap {"write_buffer", "begin_render_pass", "set_pipeline",
                                    "draw_indexed", "end_render_pass", "finish",
                                    "submit", "present"} = {}
           /\ uniform_buffer' = uniform_buffer
           /\ surface_config' = surface_config ]_vars

\* A render whose acquisition failed.
C4_Witness ==
    /\ lastOp.op = "render"
    /\ AcquireErr \in Range(calls)
    /\ ~ZeroArea(surface_config)

\* C5: a redraw request of the App whose surface-image acquisition fails
\* leaves the process running.
C5_RedrawFailureKeepsRunning ==
    (lastOp.op = "RedrawRequested" /\ AcquireErr \in Range(calls)) => proc = "running"

\* C6: resize(w, h) with w = 0 or h = 0 (RenderContext::resize, or the App's
\* Resized once it has a window) stores (w, h) and does not configure the
\* surface.
C6_ZeroResizeNoConfigure ==
    /\ (lastOp.op = "resize" /\ (lastOp.width = 0 \/ lastOp.height = 0))
         => /\ surface_config = Size(lastOp.width, lastOp.height)
            /\ "configure" \notin CallOps(calls)
    /\ (lastOp.op = "Resized" /\ window /\ (lastOp.width = 0 \/ lastOp.height = 0))
         => /\ config = {Size(lastOp.width, lastOp.height)}
            /\ "configure" \notin CallOps(calls)

\* A resize to a zero width and a non-zero height, with the surface still
\* configured for another size.
C6_Witness ==
    /\ lastOp.op = "resize"
    /\ lastOp.width = 0 /\ lastOp.height # 0
    /\ surface_config = Size(0, lastOp.height)
    /\ surface # {surface_config}

\* C7: resize(w, h) with w and h non-zero configures the surface with exactly
\* (w, h) before returning; and whenever render acquires a surface image, the
\* surface was last configured with the stored dimensions.
C7_ResizeConfiguresStored ==
    /\ (lastOp.op = "resize" /\ lastOp.width # 0 /\ lastOp.height # 0)
         => /\ calls = << Call("configure", lastOp.width, lastOp.height) >>
            /\ surface = {Size(lastOp.width, lastOp.height)}
            /\ surface_config = Size(lastOp.width, lastOp.height)
    /\ (lastOp.op = "render" /\ CallOps(calls) \cap {"get_current_texture"} # {})
         => surface = {surface_config}

\* A resize to a non-square non-zero size.
C7_Witness ==
    /\ lastOp.op = "resize"
    /\ lastOp.width # 0 /\ lastOp.height # 0 /\ lastOp.width # lastOp.height
    /\ surface = {surface_config}

\* C8: in a render that is not skipped, the aspect ratio the view-projection
\* matrix is produced with equals stored width / stored height.
C8_AspectIsStoredRatio ==
    /\ lastOp.op = "render"
         => \A c \in Range(calls) :
               c.op = "write_buffer"
               => /\ c.a * surface_config.height = c.b * surface_config.width
                  /\ uniform_buffer.aspect[1] * surface_config.height
                        = uniform_buffer.aspect[2] * surface_config.width
    /\ lastOp.op = "RedrawRequested"
         => \A c \in Range(calls), stored \in config :
               c.op = "write_buffer"
               => /\ c.a * stored.height = c.b * stored.width
                  /\ uniform_buffer.aspect[1] * stored.height
                        = uniform_buffer.aspect[2] * stored.width

\* The indexed draws of a call sequence, in order.
DrawCalls(cs) == SelectSeq(cs, LAMBDA c : c.op = "draw_indexed")

\* The k-th geometry the context holds, in the order of construction.
Geometry(k) ==
    meshes[CHOOSE i \in DOMAIN buffer_sets :
              Cardinality({j \in DOMAIN buffer_sets : j < i}) = k - 1]

\* C9: a render that is not skipped issues one indexed draw per geometry the
\* context holds, within one render pass, in the order of the geometries, the
\* k-th draw covering the k-th geometry's index count with instance count 1.
C9_OneDrawPerGeometry ==
    (lastOp.op = "render" /\ "submit" \in CallOps(calls))
    => /\ Count(calls, "begin_render_pass") = 1
       /\ DrawCalls(calls) =
             [k \in 1..Cardinality(DOMAIN buffer_sets) |->
                 Call("draw_indexed", Mesh_index_count(Geometry(k)), 1)]

\* C10: a render (RenderContext::render, or the App's RedrawRequested) that
\* acquired a surface image submits exactly one command buffer and presents
\* the image exactly once, after the submit, and does not panic.
C10_SubmitThenPresent ==
    (lastOp.op \in {"render", "RedrawRequested"} /\ AcquireOk \in Range(calls))
    => /\ proc = "running"
       /\ Count(calls, "submit") = 1
       /\ Count(calls, "present") = 1
       /\ \A i \in Positions(calls, "submit") : calls[i].a = 1
       /\ \A i \in Positions(calls, "submit"), j \in Positions(calls, "present") : i < j
       /\ \A i \in Positions(calls, "get_current_texture"),
             j \in Positions(calls, "present") : i < j

\* A render that acquired an image and presented it.
C10_Witness ==
    /\ lastOp.op = "render"
    /\ AcquireOk \in Range(calls)
    /\ calls[Len(calls)] = Call("present", 0, 0)

\* Whether a matrix is the view-projection matrix of a camera pose for the
\* aspect ratio width / height.
IsViewProjection(m, cam, size) ==
    /\ m.translation = cam.translation
    /\ m.rotation = cam.rotation
    /\ m.aspect[2] # 0
    /\ m.aspect[1] * size.height = m.aspect[2] * size.width

\* C11: in a render that is not skipped (RenderContext::render, or the App's
\* RedrawRequested), the uniform buffer is written once, before the submit,
\* and after the call it holds the camera's view-projection matrix for the
\* frame's aspect ratio, stored width / stored height.
C11_UniformWrittenBeforeSubmit ==
    /\ (lastOp.op = "render" /\ "submit" \in CallOps(calls))
         => /\ Count(calls, "write_buffer") = 1
            /\ \A i \in Positions(calls, "write_buffer"),
                  j \in Positions(calls, "submit") : i < j
            /\ \E cam \in CallerCameras :
                  IsViewProjection(uniform_buffer, cam, surface_config)
    /\ (lastOp.op = "RedrawRequested" /\ "submit" \in CallOps(calls))
         => /\ Count(calls, "write_buffer") = 1
            /\ \A i \in Positions(calls, "write_buffer"),
                  j \in Positions(calls, "submit") : i < j
            /\ \A stored \in config :
                  IsViewProjection(uniform_buffer, camera, stored)

\* C12: render registers its mesh before it encodes the draw, so the lookup
\* of the mesh's buffer pair is a hit: render never panics, and the buffers it
\* binds are the ones the registry maps to the mesh.
C12_LookupAlwaysHits ==
    lastOp.op = "render"
    => /\ proc = "running"
       /\ lastOp.mesh \in DOMAIN buffer_sets
       /\ \A i \in Positions(calls, "create_buffer_init"),
             j \in Positions(calls, "draw_indexed") : i < j
       /\ \A c \in Range(calls) :
             /\ c.op = "set_vertex_buffer"
                  => c.b = buffer_sets[lastOp.mesh].vertex_buffer
             /\ c.op = "set_index_buffer"
                  => c.a = buffer_sets[lastOp.mesh].index_buffer

\* A render that uploaded its mesh and drew it in the same call.
C12_Witness ==
    /\ lastOp.op = "render"
    /\ "create_buffer_init" \in CallOps(calls)
    /\ "draw_indexed" \in CallOps(calls)
    /\ Cardinality(DOMAIN buffer_sets) = 2

\* C13: a resumed notification that arrives once the App has its window is a
\* no-op: it makes no call (creates no window, surface, device, buffer or
\* pipeline) and leaves every field of the App unchanged.
C13_ResumedAgainIsNoOp ==
    [][ (lastOp'.op = "resumed" /\ window)
        => /\ calls' = <<>>
           /\ window' = window
           /\ config' = config
           /\ camera' = camera
           /\ surface' = surface
           /\ uniform_buffer' = uniform_buffer
           /\ proc' = proc ]_vars

\* A resumed notification after initialization, the camera having moved.
C13_Witness ==
    /\ lastOp.op = "resumed"
    /\ calls = <<>>
    /\ window /\ config # {}
    /\ camera # Camera_default

\* Positions of the call that allocates the uniform buffer (64 bytes, one
\* 4x4 matrix of f32).
UniformBufferPositions(cs) ==
    {i \in DOMAIN cs : cs[i].op \in {"create_buffer", "create_buffer_init"} /\ cs[i].b = 64}

\* The steps of initialization, as sets of positions in a call sequence:
\* adapter, device, surface configuration, pipeline, uniform buffer, bind group.
InitSteps(cs) ==
    [adapter |-> Positions(cs, "request_adapter"),
     device |-> Positions(cs, "request_device"),
     configure |-> Positions(cs, "configure"),
     pipeline |-> Positions(cs, "create_render_pipeline"),
     uniform |-> UniformBufferPositions(cs),
     bind_group |-> Positions(cs, "create_bind_group")]

\* Every step happened exactly once.
InitComplete(cs) == \A f \in DOMAIN InitSteps(cs) : Cardinality(InitSteps(cs)[f]) = 1

\* Every position of P precedes every position of Q.
Precede(P, Q) == \A i \in P, j \in Q : i < j

\* The last handler was an initialization (RenderContext::new, or the App's
\* first resumed) that did not panic.
Initialized ==
    \/ lastOp.op = "new" /\ context = "Running"
    \/ lastOp.op = "resumed" /\ calls # <<>> /\ proc = "running"

\* C14 as stated: the steps happen once each in the order adapter, device,
\* surface configuration, pipeline, uniform buffer and bind group.
C14_InitOrderAsStated ==
    Initialized
    => /\ InitComplete(calls)
       /\ Precede(InitSteps(calls).adapter, InitSteps(calls).device)
       /\ Precede(InitSteps(calls).device, InitSteps(calls).configure)
       /\ Precede(InitSteps(calls).configure, InitSteps(calls).pipeline)
       /\ Precede(InitSteps(calls).pipeline, InitSteps(calls).uniform)
       /\ Precede(InitSteps(calls).uniform, InitSteps(calls).bind_group)

\* C14, amended: the steps happen once each in the order adapter, device,
\* surface configuration, uniform buffer, bind group, pipeline; the context
\* (the App) is running after an initialization only if all of them happened;
\* and no later handler repeats an initialization step.
C14_InitOrder ==
    /\ Initialized
         => /\ InitComplete(calls)
            /\ Precede(InitSteps(calls).adapter, InitSteps(calls).device)
            /\ Precede(InitSteps(calls).device, InitSteps(calls).configure)
            /\ Precede(InitSteps(calls).configure, InitSteps(calls).uniform)
            /\ Precede(InitSteps(calls).uniform, InitSteps(calls).bind_group)
            /\ Precede(InitSteps(calls).bind_group, InitSteps(calls).pipeline)
    /\ (lastOp.op = "new" /\ ~InitComplete(calls))
         => context = "Uninitialized" /\ proc = "panicked"
    /\ (lastOp.op = "resumed" /\ calls # <<>> /\ ~InitComplete(calls))
         => config = {} /\ proc = "panicked"
    /\ lastOp.op \notin {"new", "resumed"}
         => CallOps(calls) \cap {"request_adapter", "request_device", "create_buffer",
                                 "create_bind_group", "create_render_pipeline"} = {}

\* A RenderContext::new that returned a context.
C14_Witness ==
    /\ lastOp.op = "new"
    /\ context = "Running"
    /\ InitComplete(calls)

\* C15: every Mesh that exists has every index strictly less than its number
\* of vertices (so in particular every mesh that is registered).
C15_IndicesInRange ==
    \A i \in DOMAIN meshes :
       \A k \in DOMAIN meshes[i].indices : meshes[i].indices[k] < meshes[i].vertices

\* C16: the registry only grows: an id in buffer_sets stays in it, mapped to
\* the same buffer pair, whatever handler runs.
C16_RegistryOnlyGrows ==
    [][ \A i \in DOMAIN buffer_sets :
           /\ i \in DOMAIN buffer_sets'
           /\ buffer_sets'[i] = buffer_sets[i] ]_vars

\* Two geometries registered, and a resize, a render of one of them and a
\* register_mesh after that: here, the first buffer pair still in place after
\* a render of the second mesh.
C16_Witness ==
    /\ lastOp.op = "render" /\ lastOp.mesh = 2
    /\ DOMAIN buffer_sets = {1, 2}
    /\ buffer_sets[1] = BufferSet_new(3, 2)
    /\ "create_buffer_init" \in CallOps(calls)

\* C17: when request_adapter or request_device fails, initialization
\* panics: no RenderContext is produced (context stays Uninitialized, the App
\* holds no configuration), the surface is not configured, and no handler
\* runs afterwards (every step starts in a running process).
C17_InitFailureIsFatal ==
    [][ /\ proc = "running"
        /\ ( \/ Call("request_adapter", 0, 0) \in Range(calls')
             \/ Call("request_device", 0, 0) \in Range(calls') )
           => /\ proc' = "panicked"
              /\ context' = "Uninitialized"
              /\ surface' = {} /\ config' = {}
              /\ "configure" \notin CallOps(calls') ]_vars

\* RenderContext::new has panicked on a rejected device request.
C17_Witness ==
    /\ harness = "RenderContext"
    /\ lastOp.op = "new"
    /\ Call("request_device", 0, 0) \in Range(calls)
    /\ proc = "panicked"

\* C18: with the window created, CloseRequested and an Escape key exit the
\* process, Escape without touching the camera; nothing runs after the exit;
\* every other key leaves the process running.
C18_CloseAndEscapeTerminate ==
    [][ /\ proc = "running"
        /\ (lastOp'.op = "CloseRequested" /\ window) => proc' = "exited"
        /\ (lastOp'.op = "KeyboardInput" /\ window)
           => IF lastOp'.key = "Escape"
              THEN proc' = "exited" /\ camera' = camera
              ELSE proc' = "running" ]_vars

\* The initialized App has exited on an Escape key.
C18_Witness ==
    /\ lastOp.op = "KeyboardInput" /\ lastOp.key = "Escape"
    /\ window /\ config # {}
    /\ proc = "exited"

\* C19: a render that is skipped (zero stored size, or acquisition failed)
\* creates no GPU buffer.
C19_SkippedRenderUploadsNothing ==
    (lastOp.op = "render" /\ "begin_render_pass" \notin CallOps(calls))
       => "create_buffer_init" \notin CallOps(calls)

\* C20: the surface is never configured with a zero width or height, neither
\* by initialization nor by a resize.
C20_NeverConfiguredZero ==
    /\ \A c \in Range(calls) : c.op = "configure" => c.a # 0 /\ c.b # 0
    /\ \A s \in surface : ~ZeroArea(s)

\* C22: a window event (redraw, resize, close, key) handled while the App
\* has no window yet makes no GPU call, changes no field of the App and does
\* not end the process.
C22_EventsBeforeResumedDropped ==
    [][ ( /\ harness = "App" /\ ~window
          /\ lastOp'.op \in {"RedrawRequested", "Resized", "CloseRequested",
                             "KeyboardInput"} )
        => /\ calls' = <<>>
           /\ UNCHANGED <<proc, window, config, surface, uniform_buffer, camera>> ]_vars

\* A Resized event with a non-zero size was handled before the first resumed.
C22_Witness ==
    /\ harness = "App" /\ ~window /\ proc = "running"
    /\ lastOp.op = "Resized" /\ lastOp.width > 0 /\ lastOp.height > 0
    /\ config = {} /\ surface = {} /\ calls = <<>>

\* A handler that was asked for a frame and presented none.
FrameSkipped ==
    /\ lastOp.op \in {"render", "RedrawRequested"}
    /\ "present" \notin CallOps(calls)

\* The stored size the next frame would be drawn at has a zero dimension
\* (or there is no configuration yet).
SizeIsZero ==
    IF harness = "App" THEN ~App_is_visible(config) ELSE ZeroArea(surface_config)

FramePresented ==
    /\ lastOp.op \in {"render", "RedrawRequested"}
    /\ Call("submit", 1, 0) \in Range(calls)
    /\ Call("present", 0, 0) \in Range(calls)

\* C21: skipped frames leave no sticky state: under the redraw cadence, after
\* a skipped frame a frame is eventually submitted and presented, unless the
\* stored size is zero or the user has closed the application.
C21_SkippedFrameThenPresented ==
    FrameSkipped ~> (FramePresented \/ SizeIsZero \/ proc = "exited")

====
